---- MODULE Spec2Model ----
(***************************************************************************)
(* Event-sourced board store of ourboard: the client-side outbound message *)
(* queue (enqueue / ack / onConnect / sendIfPossible) and the server-side  *)
(* board store (fetchBoard, getBoardHistory, getFullBoardHistory,          *)
(* saveRecentEvents, saveBoardSnapshot, createBoard).                      *)
(***************************************************************************)
EXTENDS Integers, Sequences, FiniteSets, TLC

(***************************************************************************)
(* Bounds of the model.                                                    *)
(***************************************************************************)
\* longest outbound queue the model lets enqueue build
MaxQueue == 2

\* highest serial the server assigns in the model
MaxSerial == 3
\* most bundle rows the model stores in board_event
MaxBundles == 2
\* longest event sequence handed to a continuity verifier
MaxEvents == 3
\* the longest history handed to verifyContinuity as one bundle
MaxBundleLen == 2
\* a load that replayed more events than this persists a snapshot
SnapshotThreshold == 1000

Range(s) == {s[i] : i \in DOMAIN s}

(***************************************************************************)
(* Outbound message queue                                                  *)
(***************************************************************************)
VARIABLES
    state,        \* the QueueState atom: [queue, sent]
    op,           \* the handler that ran last
    sends,        \* socket.send calls of the last handler: <<[batch, at]>>
    dropped,      \* events the last handler removed from sent
    folded,       \* queue entries the last enqueue replaced
    waiting,      \* an enqueue found sent non-empty and no ack came since
    outstanding   \* batches transmitted since the last ack or onConnect

qvars == <<state, op, sends, dropped, folded, waiting, outstanding>>

VARIABLES
    row,          \* the row of the board table: NoRow or [content |-> Board]
    bundles,      \* the rows of board_event, in insertion order
    log,          \* the events the server has assigned serials 1..Len(log) to
    ret,          \* what the last store call returned
    load          \* what the last fetchBoard did

svars == <<row, bundles, log, ret, load>>

VARIABLES
    calls,        \* the dispatchSystemAppEvent calls in progress, by request
    assigned,     \* what updateBoards returned: <<[serial, event]>> in order
    broadcasts,   \* the history entries given to broadcastBoardEvent, in order
    routes,       \* the API requests in progress, by request: route and response
    tokens        \* the access tokens of the board: rows of board_api_token

avars == <<calls, assigned, broadcasts, routes, tokens>>

VARIABLES
    table,        \* the ids of the committed rows of the board table
    txn,          \* the database transactions in progress, by connection
    pool          \* the connection pool: idle clients and the withDBClient calls

lvars == <<table, txn, pool>>

VARIABLES
    verified      \* the last call of a continuity verifier: arguments and result

cvars == <<verified>>

vars == <<state, op, sends, dropped, folded, waiting, outstanding,
          row, bundles, log, ret, load, calls, assigned, broadcasts, routes,
          tokens, table, txn, pool, verified>>

QItemIds == {"A", "B"}
QPositions == {1, 2}
\* a move carries a position, a lock request carries no payload
QEvents ==
    {[action |-> "item.move", itemId |-> i, x |-> v] : i \in QItemIds, v \in QPositions}
    \cup {[action |-> "item.lock", itemId |-> i, x |-> 0] : i \in QItemIds}

\* two events fold when they target the same entity and action class
Foldable(a, b) == a.action = b.action /\ a.itemId = b.itemId

\* index of the first queue entry the event folds into, 0 when there is none
FoldIndex(event, q) ==
    IF \E i \in DOMAIN q : Foldable(q[i], event)
    THEN CHOOSE i \in DOMAIN q :
            /\ Foldable(q[i], event)
            /\ \A j \in DOMAIN q : Foldable(q[j], event) => i <= j
    ELSE 0

\* defective variant: the folded entry is removed and the event goes to the tail
addOrReplaceEventAtTail(event, q) ==
    Append(SelectSeq(q, LAMBDA x : ~Foldable(x, event)), event)

addOrReplaceEvent(event, q) ==
    IF FoldIndex(event, q) = 0
    THEN Append(q, event)
    ELSE [q EXCEPT ![FoldIndex(event, q)] = event]

\* defective variant: the guard on sent is missing
sendIfPossibleNoSentGuard(s) ==
    IF Len(s.queue) = 0
    THEN [state |-> s, out |-> <<>>]
    ELSE [state |-> [queue |-> <<>>, sent |-> s.queue],
          out |-> <<[batch |-> s.queue, at |-> s]>>]

\* defective variant: the two conditions of the guard are joined by "and"
sendIfPossibleAnd(s) ==
    IF Len(s.sent) > 0 /\ Len(s.queue) = 0
    THEN [state |-> s, out |-> <<>>]
    ELSE [state |-> [queue |-> <<>>, sent |-> s.queue],
          out |-> <<[batch |-> s.queue, at |-> s]>>]

\* defective variant: only the newest queue entry is transmitted
sendIfPossibleLast(s) ==
    IF Len(s.sent) > 0 \/ Len(s.queue) = 0
    THEN [state |-> s, out |-> <<>>]
    ELSE [state |-> [queue |-> <<>>, sent |-> <<s.queue[Len(s.queue)]>>],
          out |-> <<[batch |-> <<s.queue[Len(s.queue)]>>, at |-> s]>>]

\* the new state and the socket.send calls made
sendIfPossible(s) ==
    IF Len(s.sent) > 0 \/ Len(s.queue) = 0
    THEN [state |-> s, out |-> <<>>]
    ELSE [state |-> [queue |-> <<>>, sent |-> s.queue],
          out |-> <<[batch |-> s.queue, at |-> s]>>]

\* defective variant: a send that throws still moves the queue to sent
sendIfPossibleFailingMoves(s, throws) ==
    [state |-> [queue |-> <<>>, sent |-> s.queue], out |-> <<>>]

\* sendIfPossible when socket.send fails: a throw leaves the callback of
\* state.modify before it returns, so the atom keeps its value; a send that
\* fails without throwing lets the callback return the new state. Either way
\* nothing is transmitted.
sendIfPossibleFailing(s, throws) ==
    IF throws
    THEN [state |-> s, out |-> <<>>]
    ELSE [state |-> [queue |-> <<>>, sent |-> s.queue], out |-> <<>>]

\* defective variant: ack forgets to clear sent
ackKeepsSent(s) == s

ackModify(s) == [s EXCEPT !.sent = <<>>]

\* defective variant: the in-flight events are put back in front of the queue
onConnectRequeue(s) == [queue |-> s.sent \o s.queue, sent |-> <<>>]

onConnectModify(s) == [s EXCEPT !.sent = <<>>]

\* defective variant: an event that folds with an in-flight one replaces it
enqueueModifyIntoSent(event, s) ==
    IF FoldIndex(event, s.sent) # 0
    THEN [s EXCEPT !.sent = addOrReplaceEvent(event, s.sent)]
    ELSE [s EXCEPT !.queue = addOrReplaceEvent(event, s.queue)]

enqueueModify(event, s) == [s EXCEPT !.queue = addOrReplaceEvent(event, s.queue)]

Min(a, b) == IF a < b THEN a ELSE b

\* history bookkeeping shared by the handlers; outstanding saturates at 2
Record(name, r, gone, repl, wait, base) ==
    /\ state' = r.state
    /\ op' = name
    /\ sends' = r.out
    /\ dropped' = gone
    /\ folded' = repl
    /\ waiting' = wait
    /\ outstanding' = Min(base + Len(r.out), 2)
    /\ UNCHANGED svars
    /\ UNCHANGED avars
    /\ UNCHANGED lvars
    /\ UNCHANGED cvars

enqueue(event) ==
    /\ Len(addOrReplaceEvent(event, state.queue)) <= MaxQueue
    /\ Record("enqueue",
              sendIfPossible(enqueueModify(event, state)),
              <<>>,
              IF FoldIndex(event, state.queue) = 0
                 THEN <<>> ELSE <<state.queue[FoldIndex(event, state.queue)]>>,
              IF Len(state.sent) > 0 THEN "enqueued" ELSE waiting,
              outstanding)

ack ==
    Record("ack", sendIfPossible(ackModify(state)), state.sent, <<>>, "no", 0)

onConnect ==
    Record("onConnect", sendIfPossible(onConnectModify(state)), state.sent, <<>>,
           IF waiting = "enqueued" THEN "reconnected" ELSE waiting, 0)

\* the server's ack of the batch that was in flight on the earlier connection
\* reaches the handler right after onConnect: the handler is the same ack()
lateAck ==
    /\ op = "onConnect"
    /\ dropped # <<>>
    /\ Record("lateAck", sendIfPossible(ackModify(state)), state.sent, <<>>,
              waiting, outstanding)

\* the handlers when the socket.send they reach fails
enqueueSendFails(event, throws) ==
    /\ Len(addOrReplaceEvent(event, state.queue)) <= MaxQueue
    /\ sendIfPossible(enqueueModify(event, state)).out # <<>>
    /\ Record(IF throws THEN "enqueueThrew" ELSE "enqueueUnsent",
              sendIfPossibleFailing(enqueueModify(event, state), throws),
              <<>>,
              IF FoldIndex(event, state.queue) = 0
                 THEN <<>> ELSE <<state.queue[FoldIndex(event, state.queue)]>>,
              waiting,
              outstanding)

ackSendFails(throws) ==
    /\ sendIfPossible(ackModify(state)).out # <<>>
    /\ Record(IF throws THEN "ackThrew" ELSE "ackUnsent",
              sendIfPossibleFailing(ackModify(state), throws),
              state.sent, <<>>, "no", 0)

onConnectSendFails(throws) ==
    /\ sendIfPossible(onConnectModify(state)).out # <<>>
    /\ Record(IF throws THEN "onConnectThrew" ELSE "onConnectUnsent",
              sendIfPossibleFailing(onConnectModify(state), throws),
              state.sent, <<>>,
              IF waiting = "enqueued" THEN "reconnected" ELSE waiting, 0)

QueueInit ==
    /\ state = [queue |-> <<>>, sent |-> <<>>]
    /\ op = "init"
    /\ sends = <<>>
    /\ dropped = <<>>
    /\ folded = <<>>
    /\ waiting = "no"
    /\ outstanding = 0

QueueNext ==
    \/ \E event \in QEvents : enqueue(event)
    \/ ack
    \/ onConnect

(***************************************************************************)
(* Board store                                                             *)
(***************************************************************************)
EmptyBoard == [serial |-> 0, items |-> {}, connections |-> {}, accessPolicy |-> "null"]

\* a board created with content: one note and one connection
SeededBoard ==
    [EmptyBoard EXCEPT !.items = {[id |-> "A", pos |-> <<1, 1>>]}, !.connections = {"c"}]

NoRow == [exists |-> FALSE, content |-> EmptyBoard, policy |-> "null"]

\* selectBoardQuery: the content with accessPolicy taken from the policy
\* columns and the board_access rows
selectBoard(r) == [r.content EXCEPT !.accessPolicy = r.policy]

\* the events the server accepts from clients and system routes
AppEvents ==
    { [action |-> "item.add", id |-> "A", pos |-> <<0, 0>>],
      [action |-> "item.move", id |-> "A", pos |-> <<5, 5>>],
      [action |-> "board.setAccessPolicy", id |-> "private", pos |-> <<0, 0>>] }

mkBootStrapEvent(board) ==
    [action |-> "item.bootstrap", id |-> "A", pos |-> <<1, 1>>]

isBoardEmpty(board) == board.items = {} /\ board.connections = {}

\* the history entry of serial s: the event plus its assigned serial
HistoryEntry(s) ==
    [serial |-> s, action |-> log[s].action, id |-> log[s].id, pos |-> log[s].pos]

\* the reducer's state transition for one history entry
boardReducer(b, e) ==
    [serial |-> e.serial,
     items |->
        CASE e.action = "item.add" ->
                {it \in b.items : it.id # e.id} \cup {[id |-> e.id, pos |-> e.pos]}
          [] e.action = "item.move" ->
                {IF it.id = e.id THEN [id |-> it.id, pos |-> e.pos] ELSE it : it \in b.items}
          [] e.action = "item.bootstrap" -> {[id |-> e.id, pos |-> e.pos]}
          [] OTHER -> b.items,
     connections |->
        IF e.action = "item.bootstrap" THEN {"c"} ELSE b.connections,
     accessPolicy |->
        IF e.action = "board.setAccessPolicy" THEN e.id ELSE b.accessPolicy]

\* strictOnSerials: the reducer rejects an entry that does not follow board.serial
reducerRejects(b, e, strictOnSerials) == strictOnSerials /\ e.serial # b.serial + 1

\* defective variant: the reducer is never strict
strictOnSerialsNever(rebuildingSnapshot) == FALSE

\* the strictOnSerials option updateBoardWithEventChunk gives the reducer
strictOnSerials(rebuildingSnapshot) == ~rebuildingSnapshot

\* defective variant: the access-policy test is inverted
applyEntryInverted(acc, e) ==
    IF e.action # "board.setAccessPolicy"
    THEN [acc EXCEPT !.board.serial = e.serial, !.i = @ + 1,
                     !.applied = Append(@, e.serial)]
    ELSE IF reducerRejects(acc.board, e, strictOnSerials(acc.rebuildingSnapshot))
    THEN [acc EXCEPT !.i = @ + 1, !.error = "reducer",
                     !.strict = @ \cup {strictOnSerials(acc.rebuildingSnapshot)}]
    ELSE [acc EXCEPT !.board = boardReducer(@, e), !.i = @ + 1,
                     !.strict = @ \cup {strictOnSerials(acc.rebuildingSnapshot)},
                     !.applied = Append(@, e.serial)]

\* defective variant: access-policy entries go through the reducer as well
applyEntryAllReduced(acc, e) ==
    IF reducerRejects(acc.board, e, strictOnSerials(acc.rebuildingSnapshot))
    THEN [acc EXCEPT !.i = @ + 1, !.error = "reducer",
                     !.strict = @ \cup {strictOnSerials(acc.rebuildingSnapshot)}]
    ELSE [acc EXCEPT !.board = boardReducer(@, e), !.i = @ + 1,
                     !.strict = @ \cup {strictOnSerials(acc.rebuildingSnapshot)},
                     !.applied = Append(@, e.serial)]

\* one step of chunk.reduce in updateBoardWithEventChunk
applyEntry(acc, e) ==
    IF e.action = "board.setAccessPolicy"
    THEN [acc EXCEPT !.board.serial = e.serial, !.i = @ + 1,
                     !.applied = Append(@, e.serial)]
    ELSE IF reducerRejects(acc.board, e, strictOnSerials(acc.rebuildingSnapshot))
    THEN [acc EXCEPT !.i = @ + 1, !.error = "reducer",
                     !.strict = @ \cup {strictOnSerials(acc.rebuildingSnapshot)}]
    ELSE [acc EXCEPT !.board = boardReducer(@, e), !.i = @ + 1,
                     !.strict = @ \cup {strictOnSerials(acc.rebuildingSnapshot)},
                     !.applied = Append(@, e.serial)]

RECURSIVE reduceChunk(_, _)
reduceChunk(acc, entries) ==
    IF entries = <<>> \/ acc.error # "none"
    THEN acc
    ELSE reduceChunk(applyEntry(acc, Head(entries)), Tail(entries))

\* defective variant: lastSerial is taken from the first entry of the chunk
updateBoardWithEventChunkFirst(st, chunk) ==
    LET r == reduceChunk(st, chunk)
    IN  IF r.error # "none"
        THEN [st EXCEPT !.i = r.i, !.applied = r.applied, !.error = r.error,
                        !.strict = r.strict]
        ELSE [r EXCEPT !.historyEventCount = @ + Len(chunk),
                       !.lastSerial = chunk[1].serial]

\* the callback of fetchBoard; a throw leaves board, count and lastSerial as
\* they were
updateBoardWithEventChunk(st, chunk) ==
    LET r == reduceChunk(st, chunk)
    IN  IF r.error # "none"
        THEN [st EXCEPT !.i = r.i, !.applied = r.applied, !.error = r.error,
                        !.strict = r.strict]
        ELSE [r EXCEPT !.historyEventCount = @ + Len(chunk),
                       !.lastSerial = chunk[Len(chunk)].serial]

\* defective variant: the entry at afterSerial itself counts as valid
historyCallbackFrom(g, chunk, afterSerial) ==
    LET validEventsAfter == SelectSeq(chunk, LAMBDA r : r.serial >= afterSerial)
        g1 == [g EXCEPT !.firstSerial = IF @ = -1 THEN chunk[1].serial ELSE @,
                        !.lastSerial = chunk[Len(chunk)].serial]
    IN  IF validEventsAfter = <<>>
        THEN g1
        ELSE [g1 EXCEPT !.firstValidSerial =
                            IF @ = -1 THEN validEventsAfter[1].serial ELSE @,
                        !.st = updateBoardWithEventChunk(@, validEventsAfter)]

\* the chunk callback of getBoardHistory
historyCallback(g, chunk, afterSerial) ==
    LET validEventsAfter == SelectSeq(chunk, LAMBDA r : r.serial > afterSerial)
        g1 == [g EXCEPT !.firstSerial = IF @ = -1 THEN chunk[1].serial ELSE @,
                        !.lastSerial = chunk[Len(chunk)].serial]
    IN  IF validEventsAfter = <<>>
        THEN g1
        ELSE [g1 EXCEPT !.firstValidSerial =
                            IF @ = -1 THEN validEventsAfter[1].serial ELSE @,
                        !.st = updateBoardWithEventChunk(@, validEventsAfter)]

\* streamingBoardEventsQuery feeding historyCallback: the stream ends, or the
\* callback throws, or the stream reports an error after err chunks
RECURSIVE historyStream(_, _, _, _)
historyStream(g, chunks, afterSerial, err) ==
    IF g.st.error # "none" THEN g
    ELSE IF err = 0 THEN [g EXCEPT !.st.error = "stream"]
    ELSE IF chunks = <<>> THEN g
    ELSE historyStream(historyCallback(g, Head(chunks), afterSerial), Tail(chunks),
                       afterSerial, IF err > 0 THEN err - 1 ELSE err)

\* defective variant: an empty history passes for any afterSerial
historyStartOkLenient(g, afterSerial) ==
    \/ g.lastSerial = afterSerial
    \/ g.firstValidSerial = afterSerial + 1
    \/ g.firstValidSerial = -1

\* the checks of getBoardHistory after the stream has ended
historyStartOk(g, afterSerial) ==
    \/ g.lastSerial = afterSerial
    \/ g.firstValidSerial = afterSerial + 1
    \/ g.firstValidSerial = -1 /\ afterSerial = 0

getBoardHistory(st, chunks, afterSerial, err) ==
    LET g == historyStream([st |-> st, firstSerial |-> -1, lastSerial |-> -1,
                            firstValidSerial |-> -1], chunks, afterSerial, err)
    IN  IF g.st.error # "none" THEN g.st
        ELSE IF historyStartOk(g, afterSerial) THEN g.st
        ELSE [g.st EXCEPT !.error = "history"]

\* streamingBoardEventsQuery feeding updateBoardWithEventChunk
RECURSIVE getFullBoardHistory(_, _, _)
getFullBoardHistory(st, chunks, err) ==
    IF st.error # "none" THEN st
    ELSE IF err = 0 THEN [st EXCEPT !.error = "stream"]
    ELSE IF chunks = <<>> THEN st
    ELSE getFullBoardHistory(updateBoardWithEventChunk(st, Head(chunks)), Tail(chunks),
                             IF err > 0 THEN err - 1 ELSE err)

\* defective variant: any later serial passes
verifyTwoPointsAscending(a, b) == b > a

verifyTwoPoints(a, b) == b = a + 1

RECURSIVE verifyEventArrayContinuity(_, _)
verifyEventArrayContinuity(init, events) ==
    IF events = <<>> THEN TRUE
    ELSE IF ~verifyTwoPoints(init, events[1].serial) THEN FALSE
    ELSE verifyEventArrayContinuity(events[1].serial, Tail(events))

RECURSIVE verifyContinuity(_, _)
verifyContinuity(init, histories) ==
    IF histories = <<>> THEN TRUE
    ELSE LET history == histories[1]
         IN  IF Len(history) > 0
             THEN IF ~verifyTwoPoints(init, history[1].serial) THEN FALSE
                  ELSE verifyContinuity(history[Len(history)].serial, Tail(histories))
             ELSE verifyContinuity(init, Tail(histories))

\* defective variant: the next bundle is compared with the first serial of
\* the one before
RECURSIVE verifyContinuityFromMetasFirst(_, _)
verifyContinuityFromMetasFirst(init, metas) ==
    IF metas = <<>> THEN TRUE
    ELSE IF ~verifyTwoPoints(init, metas[1].first_serial) THEN FALSE
    ELSE verifyContinuityFromMetasFirst(metas[1].first_serial, Tail(metas))

RECURSIVE verifyContinuityFromMetas(_, _)
verifyContinuityFromMetas(init, metas) ==
    IF metas = <<>> THEN TRUE
    ELSE IF ~verifyTwoPoints(init, metas[1].first_serial) THEN FALSE
    ELSE verifyContinuityFromMetas(metas[1].last_serial, Tail(metas))

\* the pair verifyTwoPoints writes to the error log when it fails
verifyTwoPointsLog(a, b) == IF verifyTwoPoints(a, b) THEN <<>> ELSE <<<<a, b>>>>

\* what each verifier leaves in the error log
RECURSIVE verifyContinuityLog(_, _)
verifyContinuityLog(init, histories) ==
    IF histories = <<>> THEN <<>>
    ELSE LET history == histories[1]
         IN  IF Len(history) > 0
             THEN IF ~verifyTwoPoints(init, history[1].serial)
                  THEN verifyTwoPointsLog(init, history[1].serial)
                  ELSE verifyContinuityLog(history[Len(history)].serial, Tail(histories))
             ELSE verifyContinuityLog(init, Tail(histories))

RECURSIVE verifyContinuityFromMetasLog(_, _)
verifyContinuityFromMetasLog(init, metas) ==
    IF metas = <<>> THEN <<>>
    ELSE IF ~verifyTwoPoints(init, metas[1].first_serial)
         THEN verifyTwoPointsLog(init, metas[1].first_serial)
         ELSE verifyContinuityFromMetasLog(metas[1].last_serial, Tail(metas))

RECURSIVE verifyEventArrayContinuityLog(_, _)
verifyEventArrayContinuityLog(init, events) ==
    IF events = <<>> THEN <<>>
    ELSE IF ~verifyTwoPoints(init, events[1].serial)
         THEN verifyTwoPointsLog(init, events[1].serial)
         ELSE verifyEventArrayContinuityLog(events[1].serial, Tail(events))

mkSnapshot(board, serial) == [board EXCEPT !.serial = serial]

\* defective variant: the rebuild starts from the snapshot as it is
rebuildStartKeep(snapshot) == snapshot

\* the board the recovery branch starts from
rebuildStart(snapshot) == [snapshot EXCEPT !.items = {}, !.connections = {}]

\* defective variant: the serial is that of the last chunk even when no
\* chunk was replayed
finalSerialLast(st, snapshot) == st.lastSerial

\* the serial fetchBoard returns and saves; the trailing "|| 0" of the source
\* changes nothing, both operands being numbers
finalSerial(st, snapshot) ==
    IF st.historyEventCount > 0 THEN st.lastSerial ELSE snapshot.serial

\* the first attempt of fetchBoard: the stream after the snapshot
firstAttempt(snapshot, chunks1, err1) ==
    getBoardHistory([board |-> snapshot, historyEventCount |-> 0, lastSerial |-> 0,
                     i |-> 0, rebuildingSnapshot |-> FALSE, applied |-> <<>>,
                     strict |-> {},
                     error |-> "none"],
                    chunks1, snapshot.serial, err1)

\* the catch branch of fetchBoard: the whole history onto the cleared board
recovery(st1, snapshot, chunks2, err2) ==
    getFullBoardHistory([st1 EXCEPT !.i = 0, !.board = rebuildStart(snapshot),
                                    !.rebuildingSnapshot = TRUE, !.applied = <<>>,
                                    !.strict = {},
                                    !.error = "none"],
                        chunks2, err2)

\* defective variant: a load of exactly SnapshotThreshold events saves too
timeToSnapshotAtLeast(st) ==
    st.historyEventCount >= SnapshotThreshold \/ st.rebuildingSnapshot

\* the condition under which fetchBoard saves a new snapshot
timeToSnapshot(st) ==
    st.historyEventCount > SnapshotThreshold \/ st.rebuildingSnapshot

\* a load that did nothing
NoLoad ==
    [kind |-> "none", board |-> EmptyBoard, wrote |-> FALSE, snapshot |-> EmptyBoard,
     rebuilt |-> FALSE, firstError |-> "none", applied1 |-> <<>>, applied2 |-> <<>>,
     strict1 |-> {}, strict2 |-> {},
     full |-> <<>>, historyEventCount |-> 0]

\* the end of fetchBoard: st1 is the first attempt, st2 the state the load
\* ended in, chunks2 what the recovery streamed
fetchBoardResult(snapshot, st1, st2, chunks2) ==
    IF st2.error # "none"
    THEN [NoLoad EXCEPT !.kind = "error", !.snapshot = snapshot, !.rebuilt = TRUE,
                        !.firstError = st1.error]
    ELSE LET serial == finalSerial(st2, snapshot)
         IN  [kind |-> "board",
              board |-> [st2.board EXCEPT !.serial = serial],
              wrote |-> timeToSnapshot(st2),
              snapshot |-> snapshot,
              rebuilt |-> st2.rebuildingSnapshot,
              firstError |-> st1.error,
              applied1 |-> st1.applied,
              applied2 |-> IF st2.rebuildingSnapshot THEN st2.applied ELSE <<>>,
              strict1 |-> st1.strict,
              strict2 |-> IF st2.rebuildingSnapshot THEN st2.strict ELSE {},
              full |-> IF st2.rebuildingSnapshot THEN chunks2 ELSE <<>>,
              historyEventCount |-> st2.historyEventCount]

\* the orders in which a query ORDER BY last_serial may stream the rows
StreamOrders(bs) ==
    {p \in [1..Len(bs) -> 1..Len(bs)] :
        /\ \A i, j \in 1..Len(bs) : i # j => p[i] # p[j]
        /\ \A i, j \in 1..Len(bs) :
              i < j => bs[p[i]].last_serial <= bs[p[j]].last_serial}

Chunks(bs, p) == [i \in 1..Len(bs) |-> bs[p[i]].events]

ChunksFrom(bs, p, afterSerial) ==
    LET sel == SelectSeq([i \in 1..Len(bs) |-> bs[p[i]]],
                         LAMBDA b : b.last_serial >= afterSerial)
    IN  [i \in 1..Len(sel) |-> sel[i].events]

NoRet == [kind |-> "none", board |-> EmptyBoard]

\* defective variant: saving the snapshot drops the bundles it covers
fetchBoardEndPrunes(r) ==
    /\ ret' = [kind |-> r.kind, board |-> r.board]
    /\ load' = r
    /\ row' = IF r.wrote THEN [row EXCEPT !.content = mkSnapshot(r.board, r.board.serial)]
              ELSE row
    /\ bundles' = IF r.wrote
                  THEN SelectSeq(bundles, LAMBDA b : b.last_serial > r.board.serial)
                  ELSE bundles
    /\ UNCHANGED log

\* what fetchBoard leaves behind: the result, the snapshot it may have saved
fetchBoardEnd(r) ==
    /\ ret' = [kind |-> r.kind, board |-> r.board]
    /\ load' = r
    /\ row' = IF r.wrote THEN [row EXCEPT !.content = mkSnapshot(r.board, r.board.serial)]
              ELSE row
    /\ UNCHANGED <<bundles, log>>

\* defective variant: a missing board is stored as an empty one
fetchBoardNotFoundCreates ==
    /\ ret' = [kind |-> "null", board |-> EmptyBoard]
    /\ load' = NoLoad
    /\ row' = [exists |-> TRUE, content |-> EmptyBoard, policy |-> "null"]
    /\ UNCHANGED <<bundles, log>>

\* the query found no row: null is returned
fetchBoardNotFound ==
    /\ ret' = [kind |-> "null", board |-> EmptyBoard]
    /\ load' = NoLoad
    /\ UNCHANGED <<row, bundles, log>>

fetchBoard ==
    /\ UNCHANGED qvars
    /\ UNCHANGED avars
    /\ UNCHANGED lvars
    /\ UNCHANGED cvars
    /\ IF ~row.exists
       THEN fetchBoardNotFound
       ELSE \E p1 \in StreamOrders(bundles) :
            \E err1 \in -1..Len(ChunksFrom(bundles, p1, selectBoard(row).serial)) :
               LET snapshot == selectBoard(row)
                   st1 == firstAttempt(snapshot, ChunksFrom(bundles, p1, snapshot.serial), err1)
               IN  IF st1.error = "none"
                   THEN fetchBoardEnd(fetchBoardResult(snapshot, st1, st1, <<>>))
                   ELSE \E p2 \in StreamOrders(bundles) :
                        \E err2 \in -1..Len(bundles) :
                           fetchBoardEnd(fetchBoardResult(
                               snapshot, st1,
                               recovery(st1, snapshot, Chunks(bundles, p2), err2),
                               Chunks(bundles, p2)))

\* the items a long replay may leave on the board
LoadedItems == {{}, {[id |-> "A", pos |-> <<0, 0>>]}, {[id |-> "A", pos |-> <<5, 5>>]}}

\* the replay lengths around the snapshot threshold
LoadedCounts == {0, 1, SnapshotThreshold - 1, SnapshotThreshold, SnapshotThreshold + 1}

\* fetchBoard from the end of the history replay on: the replay, too long to
\* enumerate entry by entry, is given by what it leaves in historyEventCount,
\* lastSerial (the count, or one more where the history has a gap),
\* rebuildingSnapshot and board
fetchBoardAfterHistory(historyEventCount, gap, rebuildingSnapshot, items) ==
    /\ UNCHANGED qvars
    /\ UNCHANGED avars
    /\ UNCHANGED lvars
    /\ UNCHANGED cvars
    /\ row.exists
    /\ LET snapshot == selectBoard(row)
           lastSerial == IF historyEventCount = 0 THEN 0 ELSE historyEventCount + gap
           start == IF rebuildingSnapshot THEN rebuildStart(snapshot) ELSE snapshot
           board == IF historyEventCount = 0 THEN start
                    ELSE [start EXCEPT !.items = items, !.serial = lastSerial]
           st == [board |-> board, historyEventCount |-> historyEventCount,
                  lastSerial |-> lastSerial, i |-> 0,
                  rebuildingSnapshot |-> rebuildingSnapshot, applied |-> <<>>,
                  strict |-> {},
                  error |-> "none"]
       IN  /\ (historyEventCount > 0 /\ ~rebuildingSnapshot) => lastSerial > snapshot.serial
           /\ fetchBoardEnd(fetchBoardResult(
                  snapshot,
                  [st EXCEPT !.error = IF rebuildingSnapshot THEN "history" ELSE "none"],
                  st, <<>>))

\* the rows of board_event are kept in the order of (last_serial, first_serial)
RowBefore(a, b) ==
    \/ a.last_serial < b.last_serial
    \/ a.last_serial = b.last_serial /\ a.first_serial <= b.first_serial

InsertRow(bs, b) ==
    LET k == Cardinality({i \in 1..Len(bs) : RowBefore(bs[i], b)})
    IN  [i \in 1..(Len(bs) + 1) |->
            IF i <= k THEN bs[i] ELSE IF i = k + 1 THEN b ELSE bs[i - 1]]

storeEventHistoryBundle(events) ==
    IF Len(events) > 0
    THEN bundles' = InsertRow(bundles,
                              [first_serial |-> events[1].serial,
                               last_serial |-> events[Len(events)].serial,
                               events |-> events])
    ELSE UNCHANGED bundles

\* defective variant: the row is written without looking for an existing one
createBoardOverwrites(board) ==
    /\ UNCHANGED qvars
    /\ UNCHANGED avars
    /\ UNCHANGED lvars
    /\ UNCHANGED cvars
    /\ Len(bundles) < MaxBundles
    /\ row' = [exists |-> TRUE, content |-> mkSnapshot(board, 0),
               policy |-> board.accessPolicy]
    /\ IF ~isBoardEmpty(board)
       THEN /\ log' = <<mkBootStrapEvent(board)>>
            /\ storeEventHistoryBundle(
                   <<[serial |-> 1] @@ mkBootStrapEvent(board)>>)
       ELSE UNCHANGED <<log, bundles>>
    /\ ret' = [kind |-> "created", board |-> EmptyBoard]
    /\ load' = NoLoad

\* createBoard: for an id that has a row it throws and the transaction is
\* rolled back; else it inserts the row and, for a board with content, the
\* bootstrap bundle
createBoard(board) ==
    /\ UNCHANGED qvars
    /\ UNCHANGED avars
    /\ UNCHANGED lvars
    /\ UNCHANGED cvars
    /\ IF row.exists
       THEN /\ ret' = [kind |-> "exists", board |-> EmptyBoard]
            /\ UNCHANGED <<row, bundles, log>>
       ELSE /\ Len(log) = 0
            /\ row' = [exists |-> TRUE, content |-> mkSnapshot(board, 0),
                       policy |-> board.accessPolicy]
            /\ IF ~isBoardEmpty(board)
               THEN /\ log' = <<mkBootStrapEvent(board)>>
                    /\ storeEventHistoryBundle(
                           <<[serial |-> 1] @@ mkBootStrapEvent(board)>>)
               ELSE UNCHANGED <<log, bundles>>
            /\ ret' = [kind |-> "created", board |-> EmptyBoard]
    /\ load' = NoLoad

\* the server accepts an event and assigns it the next serial
dispatch(appEvent) ==
    /\ UNCHANGED qvars
    /\ UNCHANGED avars
    /\ UNCHANGED lvars
    /\ UNCHANGED cvars
    /\ row.exists
    /\ Len(log) < MaxSerial
    /\ log' = Append(log, appEvent)
    /\ ret' = NoRet
    /\ load' = NoLoad
    /\ UNCHANGED <<row, bundles>>

\* the server stores the entries first..last of its history as one bundle
saveRecentEvents(first, last) ==
    /\ UNCHANGED qvars
    /\ UNCHANGED avars
    /\ UNCHANGED lvars
    /\ UNCHANGED cvars
    /\ row.exists
    /\ Len(bundles) < MaxBundles
    /\ storeEventHistoryBundle([i \in 1..(last - first + 1) |-> HistoryEntry(first + i - 1)])
    /\ ret' = NoRet
    /\ load' = NoLoad
    /\ UNCHANGED <<row, log>>

RECURSIVE Replay(_, _)
Replay(b, entries) ==
    IF entries = <<>> THEN b ELSE Replay(boardReducer(b, Head(entries)), Tail(entries))

\* the board the server holds in memory: its whole history applied in order
LiveBoard == Replay(EmptyBoard, [i \in 1..Len(log) |-> HistoryEntry(i)])

\* the server saves its in-memory board as the snapshot
saveBoardSnapshot(board) ==
    /\ UNCHANGED qvars
    /\ UNCHANGED avars
    /\ UNCHANGED lvars
    /\ UNCHANGED cvars
    /\ row.exists
    /\ row.content # board
    /\ row' = [row EXCEPT !.content = board]
    /\ ret' = NoRet
    /\ load' = NoLoad
    /\ UNCHANGED <<bundles, log>>

(***************************************************************************)
(* System event dispatch of the API routes                                 *)
(***************************************************************************)
Requests == {"r1", "r2"}

\* the events the API routes dispatch: persistable board item events
SystemEvents == {e \in AppEvents : e.action # "board.setAccessPolicy"}

NoCall == [pc |-> "idle", event |-> CHOOSE e \in SystemEvents : TRUE, seen |-> 0, serial |-> 0]

\* defective variant: the serial follows the one the caller saw when it began
nextSerialSeen(seen, current) == seen + 1

\* the serial updateBoards gives the next event of the board
nextSerial(seen, current) == current + 1

\* dispatchSystemAppEvent up to its await: the history entry is built and
\* updateBoards is called
dispatchSystemAppEvent(r, appEvent) ==
    /\ calls[r].pc \in {"idle", "done", "failed"}
    /\ calls' = [calls EXCEPT ![r] = [pc |-> "updating", event |-> appEvent,
                                      seen |-> Len(log), serial |-> 0]]
    /\ UNCHANGED <<assigned, broadcasts, routes, tokens>>
    /\ UNCHANGED qvars
    /\ UNCHANGED lvars
    /\ UNCHANGED cvars
    /\ UNCHANGED svars

\* updateBoards settles: it rejects for a board that does not exist, else it
\* assigns the serial and records the event, in one step
updateBoards(r) ==
    /\ calls[r].pc = "updating"
    /\ IF ~row.exists
       THEN /\ calls' = [calls EXCEPT ![r].pc = "failed"]
            /\ UNCHANGED <<assigned, log>>
       ELSE /\ Len(log) < MaxSerial
            /\ LET serial == nextSerial(calls[r].seen, Len(log))
               IN  /\ calls' = [calls EXCEPT ![r].pc = "assigned", ![r].serial = serial]
                   /\ assigned' = Append(assigned, [serial |-> serial,
                                                    event |-> calls[r].event])
            /\ log' = Append(log, calls[r].event)
    /\ UNCHANGED <<broadcasts, routes, tokens>>
    /\ UNCHANGED qvars
    /\ UNCHANGED lvars
    /\ UNCHANGED cvars
    /\ UNCHANGED <<row, bundles, ret, load>>

\* defective variant: the entry is broadcast whether or not updateBoards
\* gave a serial
broadcastBoardEventAlways(r) ==
    /\ calls[r].pc \in {"assigned", "failed"}
    /\ broadcasts' = Append(broadcasts, [serial |-> calls[r].serial,
                                         event |-> calls[r].event])
    /\ calls' = [calls EXCEPT ![r].pc = "done"]
    /\ UNCHANGED <<assigned, routes, tokens>>
    /\ UNCHANGED qvars
    /\ UNCHANGED lvars
    /\ UNCHANGED cvars
    /\ UNCHANGED svars

\* dispatchSystemAppEvent after its await: the entry gets the serial and is
\* broadcast
broadcastBoardEvent(r) ==
    /\ calls[r].pc = "assigned"
    /\ broadcasts' = Append(broadcasts, [serial |-> calls[r].serial,
                                         event |-> calls[r].event])
    /\ calls' = [calls EXCEPT ![r].pc = "done"]
    /\ UNCHANGED <<assigned, routes, tokens>>
    /\ UNCHANGED qvars
    /\ UNCHANGED lvars
    /\ UNCHANGED cvars
    /\ UNCHANGED svars

\* no request in progress
NoRoute ==
    [route |-> "none", token |-> "none", required |-> FALSE, ran |-> FALSE,
     dispatched |-> FALSE, awaited |-> FALSE, response |-> "none"]

\* the api_token header: absent, or one of these strings
NoToken == "none"
Tokens == {"t1", "t2"}

\* updateBoards rejects
updateBoardsRejects(r) ==
    /\ calls[r].pc = "updating"
    /\ calls' = [calls EXCEPT ![r].pc = "failed"]
    /\ UNCHANGED <<assigned, broadcasts, routes, tokens>>
    /\ UNCHANGED qvars
    /\ UNCHANGED lvars
    /\ UNCHANGED cvars
    /\ UNCHANGED svars

\* createAccessToken: one more row of board_api_token
createAccessToken(t) ==
    /\ row.exists
    /\ t \notin tokens
    /\ tokens' = tokens \cup {t}
    /\ UNCHANGED <<calls, assigned, broadcasts, routes>>
    /\ UNCHANGED qvars
    /\ UNCHANGED lvars
    /\ UNCHANGED cvars
    /\ UNCHANGED svars

\* a request slot is free when its response was given and the dispatch it
\* started, if any, has run to its end
RouteFree(r) ==
    /\ routes[r].route = "none" \/ routes[r].response # "none"
    /\ calls[r].pc \in {"idle", "done", "failed"}

\* the board has an access policy or at least one access token
accessRequired == row.policy # "null" \/ tokens # {}

\* defective variant: any token that is present is accepted
checkBoardAPIAccessAnyToken(apiToken) ==
    IF ~row.exists THEN "internalServerError"
    ELSE IF accessRequired /\ apiToken = NoToken
         THEN "badRequest: API_TOKEN header is missing"
    ELSE "run"

\* checkBoardAPIAccess up to the call of the handler: "run" when the handler
\* is called, else the response given in its place. getBoard rejects for a
\* board that does not exist, which the catch block turns into a 500.
checkBoardAPIAccess(apiToken) ==
    IF ~row.exists THEN "internalServerError"
    ELSE IF accessRequired /\ apiToken = NoToken
         THEN "badRequest: API_TOKEN header is missing"
    ELSE IF accessRequired /\ apiToken \notin tokens
         THEN "badRequest: Invalid API_TOKEN"
    ELSE "run"

\* the request was answered by checkBoardAPIAccess, its handler not called
refused(r, route, apiToken) ==
    [route |-> route, token |-> apiToken, required |-> accessRequired, ran |-> FALSE,
     dispatched |-> FALSE, awaited |-> FALSE,
     response |-> checkBoardAPIAccess(apiToken)]

\* the handler up to the first await it waits at. addItem calls
\* dispatchSystemAppEvent and does not wait for it; updateItem awaits it, and
\* calls it only when the item changes
itemHandler(r, route, apiToken, useAdd, changed) ==
    /\ RouteFree(r)
    /\ IF checkBoardAPIAccess(apiToken) = "run"
       THEN /\ IF useAdd \/ changed
               THEN calls' = [calls EXCEPT ![r] =
                                [pc |-> "updating",
                                 event |-> IF useAdd
                                           THEN [action |-> "item.add", id |-> "A",
                                                 pos |-> <<0, 0>>]
                                           ELSE [action |-> "item.move", id |-> "A",
                                                 pos |-> <<5, 5>>],
                                 seen |-> Len(log), serial |-> 0]]
               ELSE UNCHANGED calls
            /\ routes' = [routes EXCEPT ![r] =
                             [route |-> route, token |-> apiToken,
                              required |-> accessRequired, ran |-> TRUE,
                              dispatched |-> useAdd \/ changed,
                              awaited |-> ~useAdd /\ changed, response |-> "none"]]
       ELSE /\ routes' = [routes EXCEPT ![r] = refused(r, route, apiToken)]
            /\ UNCHANGED calls
    /\ UNCHANGED <<assigned, broadcasts, tokens>>
    /\ UNCHANGED qvars
    /\ UNCHANGED lvars
    /\ UNCHANGED cvars
    /\ UNCHANGED svars

\* POST /api/v1/board/:boardId/item
itemCreate(r, apiToken) == itemHandler(r, "POST item", apiToken, TRUE, FALSE)

\* PUT /api/v1/board/:boardId/item/:itemId
itemCreateOrUpdate(r, apiToken, changed) ==
    itemHandler(r, "PUT item", apiToken, ~\E i \in LiveBoard.items : i.id = "A", changed)

\* PUT /api/v1/board/:boardId: the handler runs updateBoard, which writes the
\* access policy to the board row and, when one is given, to the content
boardUpdate(r, apiToken, accessPolicy) ==
    /\ RouteFree(r)
    /\ IF checkBoardAPIAccess(apiToken) = "run"
       THEN /\ routes' = [routes EXCEPT ![r] =
                             [route |-> "PUT board", token |-> apiToken,
                              required |-> accessRequired, ran |-> TRUE,
                              dispatched |-> FALSE, awaited |-> FALSE,
                              response |-> "none"]]
            /\ row' = [row EXCEPT !.policy = accessPolicy,
                                  !.content.accessPolicy =
                                      IF accessPolicy # "null" THEN accessPolicy ELSE @]
       ELSE /\ routes' = [routes EXCEPT ![r] = refused(r, "PUT board", apiToken)]
            /\ UNCHANGED row
    /\ UNCHANGED <<calls, assigned, broadcasts, tokens>>
    /\ UNCHANGED <<bundles, log, ret, load>>
    /\ UNCHANGED qvars
    /\ UNCHANGED lvars
    /\ UNCHANGED cvars

\* the handler's return: ok once what it awaited has resolved, and the
\* response of the catch block of checkBoardAPIAccess when it rejected
respond(r) ==
    /\ routes[r].route # "none"
    /\ routes[r].response = "none"
    /\ routes[r].awaited => calls[r].pc \in {"done", "failed"}
    /\ routes' = [routes EXCEPT ![r].response =
                     IF routes[r].awaited /\ calls[r].pc = "failed"
                     THEN "internalServerError" ELSE "ok"]
    /\ UNCHANGED <<calls, assigned, broadcasts, tokens>>
    /\ UNCHANGED qvars
    /\ UNCHANGED lvars
    /\ UNCHANGED cvars
    /\ UNCHANGED svars

ApiInit ==
    /\ calls = [r \in Requests |-> NoCall]
    /\ assigned = <<>>
    /\ broadcasts = <<>>
    /\ routes = [r \in Requests |-> NoRoute]
    /\ tokens = {}

\* the item routes of the API
ApiRouteNext ==
    \/ \E board \in {EmptyBoard, SeededBoard} : createBoard(board)
    \/ \E r \in Requests : itemCreate(r, NoToken)
    \/ \E r \in Requests : \E changed \in BOOLEAN : itemCreateOrUpdate(r, NoToken, changed)
    \/ \E r \in Requests : updateBoards(r)
    \/ \E r \in Requests : updateBoardsRejects(r)
    \/ \E r \in Requests : broadcastBoardEvent(r)
    \/ \E r \in Requests : respond(r)

ApiNext ==
    \/ \E board \in {EmptyBoard, SeededBoard} : createBoard(board)
    \/ \E r \in Requests : \E appEvent \in SystemEvents : dispatchSystemAppEvent(r, appEvent)
    \/ \E r \in Requests : updateBoards(r)
    \/ \E r \in Requests : broadcastBoardEvent(r)

(***************************************************************************)
(* Row locks of the board table                                            *)
(***************************************************************************)
BoardIds == {"X", "Y"}

Txns == {"t1", "t2"}

\* the operations that run in a transaction of their own
TxnOps == {"fetchBoard", "createBoard", "saveRecentEvents"}

NoTxn == [op |-> "none", board |-> "X", pc |-> "idle", held |-> {}, waitsFor |-> "none"]

\* the rows the query of selectBoardQuery locks for the board id it is given:
\* "for update" stands in the common table expression, which selects every
\* row of board; "where id=$1" filters its result only afterwards
lockedBySelect(id, rows) == rows

\* the first row of the scan the transaction has not locked yet
NextToLock(t) ==
    CHOOSE b \in lockedBySelect(txn[t].board, table) \ txn[t].held :
        \A c \in lockedBySelect(txn[t].board, table) \ txn[t].held :
            (b = "X") \/ (c = "Y")

\* inTransaction: BEGIN on a connection of its own
beginTransaction(t, o, id) ==
    /\ txn[t].pc = "idle"
    /\ txn' = [txn EXCEPT ![t] = [NoTxn EXCEPT !.op = o, !.board = id, !.pc = "begun"]]
    /\ UNCHANGED <<table, pool>>
    /\ UNCHANGED qvars
    /\ UNCHANGED svars
    /\ UNCHANGED avars
    /\ UNCHANGED cvars

\* fetchBoard runs selectBoardQuery: the scan locks one row after the other
\* and waits at a row another transaction holds
lockBoardRows(t) ==
    /\ txn[t].op = "fetchBoard"
    /\ txn[t].pc \in {"begun", "waiting"}
    /\ IF lockedBySelect(txn[t].board, table) \subseteq txn[t].held
       THEN txn' = [txn EXCEPT ![t].pc = "done", ![t].waitsFor = "none"]
       ELSE IF \E u \in Txns \ {t} : NextToLock(t) \in txn[u].held
       THEN txn' = [txn EXCEPT ![t].pc = "waiting", ![t].waitsFor = NextToLock(t)]
       ELSE txn' = [txn EXCEPT ![t].pc = "begun", ![t].waitsFor = "none",
                               ![t].held = @ \cup {NextToLock(t)}]
    /\ UNCHANGED <<table, pool>>
    /\ UNCHANGED qvars
    /\ UNCHANGED svars
    /\ UNCHANGED avars
    /\ UNCHANGED cvars

\* createBoard and saveRecentEvents read and insert without a row lock
runWithoutLock(t) ==
    /\ txn[t].op \in {"createBoard", "saveRecentEvents"}
    /\ txn[t].pc = "begun"
    /\ txn' = [txn EXCEPT ![t].pc = "done"]
    /\ UNCHANGED <<table, pool>>
    /\ UNCHANGED qvars
    /\ UNCHANGED svars
    /\ UNCHANGED avars
    /\ UNCHANGED cvars

\* COMMIT: the locks are released, an inserted board row becomes visible
commit(t) ==
    /\ txn[t].pc = "done"
    /\ table' = IF txn[t].op = "createBoard" THEN table \cup {txn[t].board} ELSE table
    /\ txn' = [txn EXCEPT ![t] = NoTxn]
    /\ UNCHANGED pool
    /\ UNCHANGED qvars
    /\ UNCHANGED svars
    /\ UNCHANGED avars
    /\ UNCHANGED cvars

\* the callers of withDBClient and the clients of connectionPool
Callers == {"a", "b", "c"}
PoolClients == {"c1", "c2"}

NoCaller == [pc |-> "idle", client |-> "none", releases |-> 0, outcome |-> "none"]

\* withDBClient up to the end of its await: connectionPool.connect() hands
\* out a client that is idle
connect(k) ==
    /\ pool.callers[k].pc \in {"idle", "settled"}
    /\ \E c \in pool.idle :
          pool' = [idle |-> pool.idle \ {c},
                   callers |-> [pool.callers EXCEPT ![k] =
                                   [pc |-> "connected", client |-> c,
                                    releases |-> 0, outcome |-> "none"]]]
    /\ UNCHANGED <<table, txn>>
    /\ UNCHANGED qvars
    /\ UNCHANGED svars
    /\ UNCHANGED avars
    /\ UNCHANGED cvars

\* the try block and the finally block, which run without an await between
\* them: f(client) runs up to its first await and returns its promise, or
\* throws; "return f(client)" does not wait for the promise, so the finally
\* block releases the client next
callAndRelease(k, throws) ==
    /\ pool.callers[k].pc = "connected"
    /\ pool' = [idle |-> pool.idle \cup {pool.callers[k].client},
                callers |-> [pool.callers EXCEPT
                                ![k].pc = IF throws THEN "settled" ELSE "pending",
                                ![k].releases = @ + 1,
                                ![k].outcome = IF throws THEN "threw" ELSE "none"]]
    /\ UNCHANGED <<table, txn>>
    /\ UNCHANGED qvars
    /\ UNCHANGED svars
    /\ UNCHANGED avars
    /\ UNCHANGED cvars

\* the promise f returned settles: its queries on the client have ended
settle(k, rejects) ==
    /\ pool.callers[k].pc = "pending"
    /\ pool' = [pool EXCEPT !.callers[k].pc = "settled",
                            !.callers[k].outcome =
                                IF rejects THEN "rejected" ELSE "resolved"]
    /\ UNCHANGED <<table, txn>>
    /\ UNCHANGED qvars
    /\ UNCHANGED svars
    /\ UNCHANGED avars
    /\ UNCHANGED cvars

PoolNext ==
    \/ \E k \in Callers : connect(k)
    \/ \E k \in Callers : \E throws \in BOOLEAN : callAndRelease(k, throws)
    \/ \E k \in Callers : \E rejects \in BOOLEAN : settle(k, rejects)

LockInit ==
    /\ table = {}
    /\ txn = [t \in Txns |-> NoTxn]
    /\ pool = [idle |-> PoolClients, callers |-> [k \in Callers |-> NoCaller]]

LockNext ==
    \/ \E t \in Txns : \E o \in TxnOps : \E id \in BoardIds : beginTransaction(t, o, id)
    \/ \E t \in Txns : lockBoardRows(t)
    \/ \E t \in Txns : runWithoutLock(t)
    \/ \E t \in Txns : commit(t)

(***************************************************************************)
(* Calls of the continuity verifiers                                       *)
(***************************************************************************)
\* the event sequences of up to MaxEvents entries with serials 1..MaxSerial+1
EventArrays ==
    UNION {[1..n -> {[serial |-> k] : k \in 1..(MaxSerial + 1)}] : n \in 0..MaxEvents}

NoVerify == [fn |-> "none", init |-> 0, events |-> <<>>, result |-> TRUE]

\* one call per run: the verifier keeps no state between calls
callVerifyEventArrayContinuity(init, events) ==
    /\ verified = NoVerify
    /\ verified' = [fn |-> "verifyEventArrayContinuity", init |-> init,
                    events |-> events,
                    result |-> verifyEventArrayContinuity(init, events)]
    /\ UNCHANGED qvars
    /\ UNCHANGED svars
    /\ UNCHANGED avars
    /\ UNCHANGED lvars

\* a stored bundle row holding the entries first..last
BundleRow(first, last) ==
    [first_serial |-> first, last_serial |-> last,
     events |-> [i \in 1..(last - first + 1) |->
                    [serial |-> first + i - 1, action |-> "item.move", id |-> "A",
                     pos |-> <<5, 5>>]]]

\* up to MaxBundles bundle rows in ascending last_serial
BundleRows ==
    LET rows == {BundleRow(first, last) : first \in 1..(MaxSerial + 1),
                                          last \in 1..(MaxSerial + 1)}
        wellFormed == {r \in rows : r.first_serial <= r.last_serial}
    IN  UNION {{bs \in [1..n -> wellFormed] :
                   \A i \in 1..(n - 1) : bs[i].last_serial <= bs[i + 1].last_serial}
               : n \in 0..MaxBundles}

\* getBoardHistory(id, afterSerial, cb) over the rows bs, with a callback that
\* takes every chunk and a stream that does not break
callGetBoardHistory(afterSerial, bs) ==
    /\ verified = NoVerify
    /\ verified' =
          [fn |-> "getBoardHistory", init |-> afterSerial, events |-> bs,
           result |->
              getBoardHistory(
                  [board |-> EmptyBoard, historyEventCount |-> 0, lastSerial |-> 0,
                   i |-> 0, rebuildingSnapshot |-> TRUE, applied |-> <<>>,
                   strict |-> {},
                   error |-> "none"],
                  ChunksFrom(bs, [i \in 1..Len(bs) |-> i], afterSerial),
                  afterSerial, -1).error = "none"]
    /\ UNCHANGED qvars
    /\ UNCHANGED svars
    /\ UNCHANGED avars
    /\ UNCHANGED lvars

\* the histories handed to verifyContinuity: up to MaxBundles event arrays of
\* up to MaxBundleLen entries, empty and gapped ones among them, and the
\* bundles [1..5], [8..10]
Histories ==
    LET arrays == UNION {[1..n -> {[serial |-> k] : k \in 1..(MaxSerial + 1)}]
                         : n \in 0..MaxBundleLen}
    IN  UNION {[1..n -> arrays] : n \in 0..MaxBundles}
        \cup {<<[i \in 1..5 |-> [serial |-> i]], [i \in 1..3 |-> [serial |-> 7 + i]]>>}

\* the first_serial and last_serial storeEventHistoryBundle gives the row of
\* each non-empty history; an empty one is given no row
MetasOf(histories) ==
    LET stored == SelectSeq(histories, LAMBDA h : Len(h) > 0)
    IN  [i \in 1..Len(stored) |->
            [first_serial |-> stored[i][1].serial,
             last_serial |-> stored[i][Len(stored[i])].serial]]

RECURSIVE Concat(_)
Concat(histories) ==
    IF histories = <<>> THEN <<>> ELSE histories[1] \o Concat(Tail(histories))

\* the three verifiers on the same history: by bundles, by the metas of the
\* stored rows, and by the events one after the other
callVerifyContinuity(init, histories) ==
    /\ verified = NoVerify
    /\ verified' =
          [fn |-> "verifyContinuity", init |-> init, events |-> histories,
           result |-> verifyContinuity(init, histories),
           fromMetas |-> verifyContinuityFromMetas(init, MetasOf(histories)),
           fromEvents |-> verifyEventArrayContinuity(init, Concat(histories)),
           log |-> verifyContinuityLog(init, histories),
           logFromMetas |-> verifyContinuityFromMetasLog(init, MetasOf(histories)),
           logFromEvents |-> verifyEventArrayContinuityLog(init, Concat(histories))]
    /\ UNCHANGED qvars
    /\ UNCHANGED svars
    /\ UNCHANGED avars
    /\ UNCHANGED lvars

VerifyInit == verified = NoVerify

VerifyNext ==
    \/ \E init \in 0..MaxSerial : \E events \in EventArrays :
          callVerifyEventArrayContinuity(init, events)
    \/ \E afterSerial \in 0..MaxSerial : \E bs \in BundleRows :
          callGetBoardHistory(afterSerial, bs)

StoreInit ==
    /\ row = NoRow
    /\ bundles = <<>>
    /\ log = <<>>
    /\ ret = NoRet
    /\ load = NoLoad

StoreNext ==
    \/ \E board \in {EmptyBoard, SeededBoard} : createBoard(board)
    \/ \E appEvent \in AppEvents : dispatch(appEvent)
    \/ \E first \in 1..Len(log) : \E last \in first..Len(log) :
          saveRecentEvents(first, last)
    \/ saveBoardSnapshot(mkSnapshot(LiveBoard, Len(log)))
    \/ fetchBoard

Init == QueueInit /\ StoreInit /\ ApiInit /\ LockInit /\ VerifyInit

QueueSpec == Init /\ [][QueueNext]_vars

\* every in-flight batch is eventually followed by an ack or an onConnect
QueueFairSpec == QueueSpec /\ WF_vars(ack \/ onConnect)

\* the handlers, with acks of earlier connections arriving late
QueueLateNext ==
    \/ \E event \in QEvents : enqueue(event)
    \/ ack
    \/ onConnect
    \/ lateAck

QueueLateSpec == Init /\ [][QueueLateNext]_vars

\* the handlers, with sends that may fail
QueueFailNext ==
    \/ \E event \in QEvents : enqueue(event)
    \/ ack
    \/ onConnect
    \/ \E event \in QEvents : \E throws \in BOOLEAN : enqueueSendFails(event, throws)
    \/ \E throws \in BOOLEAN : ackSendFails(throws)
    \/ \E throws \in BOOLEAN : onConnectSendFails(throws)

QueueFailSpec == Init /\ [][QueueFailNext]_vars

StoreSpec == Init /\ [][StoreNext]_vars

\* the store with bundle appends and loads only: the snapshot is written by
\* createBoard and fetchBoard alone
StoreAppendNext ==
    \/ \E board \in {EmptyBoard, SeededBoard} : createBoard(board)
    \/ \E appEvent \in AppEvents : dispatch(appEvent)
    \/ \E first \in 1..Len(log) : \E last \in first..Len(log) :
          saveRecentEvents(first, last)
    \/ fetchBoard

StoreAppendSpec == Init /\ [][StoreAppendNext]_vars

\* loads of histories of any length on a created board
LoadEndNext ==
    \/ \E board \in {EmptyBoard, SeededBoard} : createBoard(board)
    \/ \E historyEventCount \in LoadedCounts : \E gap \in {0, 1} :
       \E rebuildingSnapshot \in BOOLEAN : \E items \in LoadedItems :
          fetchBoardAfterHistory(historyEventCount, gap, rebuildingSnapshot, items)

LoadEndSpec == Init /\ [][LoadEndNext]_vars

ApiSpec == Init /\ [][ApiNext]_vars

\* the continuation of an await that has resolved is run
ApiFairSpec == ApiSpec /\ \A r \in Requests : WF_vars(broadcastBoardEvent(r))

ApiRouteSpec == Init /\ [][ApiRouteNext]_vars

\* the routes behind checkBoardAPIAccess on a board whose access policy and
\* access tokens change: board updates as request r1, item posts as r2
ApiAccessNext ==
    \/ \E board \in {EmptyBoard, SeededBoard} : createBoard(board)
    \/ \E t \in Tokens : createAccessToken(t)
    \/ \E apiToken \in Tokens \cup {NoToken} : \E accessPolicy \in {"null", "private"} :
          boardUpdate("r1", apiToken, accessPolicy)
    \/ \E apiToken \in Tokens \cup {NoToken} : itemCreate("r2", apiToken)
    \/ \E r \in Requests : updateBoards(r)
    \/ \E r \in Requests : broadcastBoardEvent(r)
    \/ \E r \in Requests : respond(r)

ApiAccessSpec == Init /\ [][ApiAccessNext]_vars

LockSpec == Init /\ [][LockNext]_vars

PoolSpec == Init /\ [][PoolNext]_vars

VerifySpec == Init /\ [][VerifyNext]_vars

\* the verifiers of a history of bundles, compared on the same input
VerifyBundlesNext ==
    \E init \in 0..MaxSerial : \E histories \in Histories :
       callVerifyContinuity(init, histories)

VerifyBundlesSpec == Init /\ [][VerifyBundlesNext]_vars

Next == QueueNext \/ StoreNext \/ ApiNext \/ LockNext \/ VerifyNext

Spec == Init /\ [][Next]_vars

(***************************************************************************)
(* Properties of the outbound message queue                                *)
(***************************************************************************)

\* C1: a transmission happens only where sent is empty and the queue is not;
\* it carries the whole queue as one batch, after it sent is that batch and
\* the queue is empty, and at most one batch is outstanding between two
\* acks or onConnects.
C1_OneBatchInFlight ==
    /\ Len(sends) <= 1
    /\ \A i \in DOMAIN sends :
          /\ sends[i].at.sent = <<>>
          /\ sends[i].at.queue # <<>>
          /\ sends[i].batch = sends[i].at.queue
          /\ state.sent = sends[i].batch
          /\ state.queue = <<>>
    /\ outstanding <= 1

C1_Witness ==
    /\ op = "ack"
    /\ dropped # <<>>
    /\ sends # <<>>
    /\ Len(state.sent) = 2
    /\ outstanding = 1

\* C2 as stated: once an enqueue has found sent non-empty, no handler other
\* than ack transmits.
C2_NoSendUntilAck ==
    [][(waiting # "no" /\ op' # "ack") => sends' = <<>>]_vars

\* C2 as amended: once an enqueue has found sent non-empty, no transmission
\* occurs until ack or onConnect is called.
C2_NoSendUntilAckOrConnect ==
    [][(waiting = "enqueued" /\ op' \notin {"ack", "onConnect"}) => sends' = <<>>]_vars

C2_Witness ==
    /\ op = "enqueue"
    /\ waiting = "enqueued"
    /\ sends = <<>>
    /\ state.sent # <<>>
    /\ Len(state.queue) = 2

C19_FoldInPlace ==
    [][(op' = "enqueue" /\ state.sent # <<>>) =>
          /\ \E e \in QEvents :
                IF \E i \in DOMAIN state.queue : Foldable(state.queue[i], e)
                THEN \E i \in DOMAIN state.queue :
                        /\ Foldable(state.queue[i], e)
                        /\ state'.queue = [state.queue EXCEPT ![i] = e]
                        /\ folded' = <<state.queue[i]>>
                ELSE /\ state'.queue = Append(state.queue, e)
                     /\ folded' = <<>>
          /\ \A i, j \in DOMAIN state'.queue :
                i # j => ~Foldable(state'.queue[i], state'.queue[j])]_vars

C19_Witness ==
    /\ op = "enqueue"
    /\ state.sent # <<>>
    /\ Len(state.queue) = 2
    /\ folded # <<>>
    /\ Foldable(folded[1], state.queue[1])
    /\ folded[1] # state.queue[1]

\* C17: the ack of a batch sent on an earlier connection, arriving after
\* onConnect, leaves the batch now in flight in sent and transmits nothing.
C17_LateAckIgnored ==
    [][(op' = "lateAck" /\ sends # <<>>) =>
          (state'.sent = state.sent /\ sends' = <<>>)]_vars

(***************************************************************************)
(* Properties of the board store                                           *)
(***************************************************************************)
RECURSIVE Flatten(_)
Flatten(chunks) == IF chunks = <<>> THEN <<>> ELSE Head(chunks) \o Flatten(Tail(chunks))

\* the stored history: the entries of all bundle rows in row order
FullHistory == Flatten([i \in 1..Len(bundles) |-> bundles[i].events])

Serials(entries) == [i \in 1..Len(entries) |-> entries[i].serial]

AsEntries(serials) == [i \in 1..Len(serials) |-> [serial |-> serials[i]]]

MaxOf(serials) == CHOOSE m \in Range(serials) : \A x \in Range(serials) : x <= m

\* some entry of the sequence is more than one above its predecessor (init
\* for the first)
HasGap(init, entries) ==
    \E i \in 1..Len(entries) :
        entries[i].serial > (IF i = 1 THEN init ELSE entries[i - 1].serial) + 1

SameContent(a, b) ==
    a.items = b.items /\ a.connections = b.connections /\ a.serial = b.serial

\* C5: when the full-history replay of the recovery meets a serial gap,
\* fetchBoard fails: it returns no board and persists no snapshot.
C5_RebuildGapFails ==
    (ret.kind \in {"board", "error"} /\ load.rebuilt /\ HasGap(0, FullHistory))
        => (ret.kind = "error" /\ ~load.wrote /\ row.content = load.snapshot)

\* C6: a load that went through the recovery replayed all bundles, each once,
\* in ascending last_serial order onto a board without items and connections,
\* and did so once: the returned items and connections are those of that
\* replay and hold nothing of the snapshot or of the failed first attempt.
C6_RebuildFromEmpty ==
    (ret.kind = "board" /\ load.rebuilt) =>
        /\ load.full \in {Chunks(bundles, p) : p \in StreamOrders(bundles)}
        /\ load.applied2 = Serials(Flatten(load.full))
        /\ ret.board.items = Replay(EmptyBoard, Flatten(load.full)).items
        /\ ret.board.connections = Replay(EmptyBoard, Flatten(load.full)).connections

C6_Witness ==
    /\ ret.kind = "board"
    /\ load.rebuilt
    /\ load.firstError = "reducer"
    /\ load.applied1 # <<>>
    /\ load.snapshot.items # {}
    /\ ret.board.items # load.snapshot.items

\* C7: a board returned without recovery was built from entries whose serials
\* run without a gap from the snapshot's serial.
C7_NormalPathGapFree ==
    (ret.kind = "board" /\ ~load.rebuilt) =>
        ~HasGap(load.snapshot.serial, AsEntries(load.applied1))

\* C8: when the stored bundles are exactly the entries 1..n and the snapshot
\* is the replay of the entries 1..k with serial k, the returned board has the
\* items, connections and serial of the replay of 1..n from the empty board,
\* with or without recovery.
C8_SnapshotReplayEquivalence ==
    (/\ ret.kind = "board"
     /\ Serials(FullHistory) = [i \in 1..Len(FullHistory) |-> i]
     /\ \E k \in 0..Len(FullHistory) :
           SameContent(load.snapshot, Replay(EmptyBoard, SubSeq(FullHistory, 1, k))))
        => SameContent(ret.board, Replay(EmptyBoard, FullHistory))

C8_Witness ==
    /\ ret.kind = "board"
    /\ load.rebuilt
    /\ Serials(FullHistory) = <<1, 2>>
    /\ load.snapshot.serial = 1
    /\ SameContent(load.snapshot, Replay(EmptyBoard, SubSeq(FullHistory, 1, 1)))
    /\ ret.board.serial = 2
    /\ ret.board.items # load.snapshot.items

\* C9: the returned serial is the highest serial among the entries applied
\* during the load, and the snapshot's serial when none was applied.
C9_ReturnedSerial ==
    ret.kind = "board" =>
        ret.board.serial =
            IF load.applied1 \o load.applied2 = <<>>
            THEN load.snapshot.serial
            ELSE MaxOf(load.applied1 \o load.applied2)

C9_Witness ==
    /\ ret.kind = "board"
    /\ ~load.rebuilt
    /\ load.snapshot = EmptyBoard
    /\ load.applied1 = <<1, 2>>
    /\ ret.board.items = {[id |-> "A", pos |-> <<5, 5>>]}
    /\ ret.board.serial = 2

\* C10: the serial of a returned board and of a snapshot persisted by the
\* load is the serial of the last entry folded into its content: the last
\* entry the recovery applied onto the cleared board (0 when it applied
\* none), or the last entry applied onto the snapshot (the snapshot's serial
\* when none).
C10_SerialMatchesContent ==
    ret.kind = "board" =>
        LET foldedIn == IF load.rebuilt THEN load.applied2 ELSE load.applied1
            base == IF load.rebuilt THEN 0 ELSE load.snapshot.serial
            lastFolded == IF foldedIn = <<>> THEN base ELSE foldedIn[Len(foldedIn)]
        IN  /\ ret.board.serial = lastFolded
            /\ load.wrote => row.content.serial <= lastFolded

\* C11: a load that returns a board has saved a snapshot exactly when it
\* replayed more than SnapshotThreshold events or rebuilt; the saved content
\* is the returned board, serial included, and a load that saves nothing
\* leaves the board row as it was.
C11_SnapshotWhenDue ==
    [][ret'.kind = "board" =>
          /\ load'.wrote <=>
                (load'.historyEventCount > SnapshotThreshold \/ load'.rebuilt)
          /\ IF load'.wrote
             THEN row' = [row EXCEPT !.content = ret'.board]
             ELSE row' = row]_vars

C11_Witness ==
    /\ ret.kind = "board"
    /\ ~load.rebuilt
    /\ load.historyEventCount = SnapshotThreshold + 1
    /\ load.wrote
    /\ row.content = ret.board
    /\ row.content # load.snapshot

\* C16: the accessPolicy of a returned board is the one of the board row's
\* policy columns whatever board.setAccessPolicy entries were replayed, with
\* or without recovery; such an entry leaves items and connections as they
\* are, so a rebuilt board is the replay of the other entries alone.
C16_PolicyFromRow ==
    ret.kind = "board" =>
        /\ ret.board.accessPolicy = row.policy
        /\ load.rebuilt =>
              LET others == SelectSeq(Flatten(load.full),
                                      LAMBDA e : e.action # "board.setAccessPolicy")
              IN  /\ ret.board.items = Replay(EmptyBoard, others).items
                  /\ ret.board.connections = Replay(EmptyBoard, others).connections

C16_Witness ==
    /\ ret.kind = "board"
    /\ ~load.rebuilt
    /\ load.applied1 = <<1, 2>>
    /\ FullHistory[2].action = "board.setAccessPolicy"
    /\ FullHistory[2].id # row.policy
    /\ ret.board.accessPolicy = row.policy
    /\ ret.board.serial = 2
    /\ ret.board.items # {}

\* C18: a fetchBoard that finds no board row returns null; it reads no
\* history, saves no snapshot and leaves the store as it was, and null is
\* returned only where there is no row.
C18_NotFound ==
    [][(ret'.kind \in {"board", "null", "error"}
           /\ (~row.exists \/ ret'.kind = "null")) =>
          /\ ~row.exists
          /\ ret'.kind = "null"
          /\ load' = NoLoad
          /\ row' = row
          /\ bundles' = bundles
          /\ log' = log]_vars

C18_Witness ==
    /\ ret.kind = "null"
    /\ ~row.exists
    /\ load = NoLoad

\* C20: the first attempt applies no entry with a serial at or below the
\* snapshot's; a load without recovery has applied, and counted, exactly the
\* streamed entries above the snapshot's serial, whatever bundle they are in.
C20_OnlyEntriesAfterSnapshot ==
    ret.kind = "board" =>
        /\ \A i \in DOMAIN load.applied1 : load.applied1[i] > load.snapshot.serial
        /\ ~load.rebuilt =>
              /\ load.historyEventCount = Len(load.applied1)
              /\ \E p \in StreamOrders(bundles) :
                    load.applied1 =
                        Serials(SelectSeq(Flatten(Chunks(bundles, p)),
                                          LAMBDA e : e.serial > load.snapshot.serial))

\* a bundle holds an entry the snapshot covers next to newer ones, another
\* bundle holds nothing new
C20_Witness ==
    /\ ret.kind = "board"
    /\ ~load.rebuilt
    /\ load.snapshot.serial = 1
    /\ Len(bundles) = 2
    /\ bundles[1].last_serial = 1
    /\ bundles[2].first_serial = 1
    /\ bundles[2].last_serial = 3
    /\ load.applied1 = <<2, 3>>
    /\ load.historyEventCount = 2

\* C22 as stated: on the first attempt (snapshot plus bundles) the reducer is
\* given strictOnSerials = false for every event, and no failure of that
\* attempt comes from the reducer.
C22_NormalReplayNotStrict ==
    ret.kind = "board" =>
        (load.strict1 \subseteq {FALSE} /\ load.firstError # "reducer")

\* C22 as amended: on the first attempt the reducer is given strictOnSerials
\* = true for every event it gets, and false only on the recovery; a board
\* returned without recovery has met no rejection by the reducer.
C22_NormalReplayStrict ==
    ret.kind = "board" =>
        /\ load.strict1 \subseteq {TRUE}
        /\ load.strict2 \subseteq {FALSE}
        /\ ~load.rebuilt => load.firstError = "none"

\* a load that replayed two chunks on the first attempt, without recovery
C22_Witness ==
    /\ ret.kind = "board"
    /\ ~load.rebuilt
    /\ Len(bundles) = 2
    /\ load.applied1 = <<1, 2>>
    /\ load.strict1 = {TRUE}

\* C23: a fetchBoard step, on every path (board returned with or without
\* rebuild, failure, not found), leaves the stored bundles and the access
\* policy as they were and creates or deletes no board row; if it changes the
\* row at all, the new content is the snapshot of the board it returns.
C23_FetchBoardFrame ==
    [][ret'.kind \in {"board", "null", "error"} =>
          /\ bundles' = bundles
          /\ log' = log
          /\ row'.exists = row.exists
          /\ row'.policy = row.policy
          /\ row' # row =>
                /\ ret'.kind = "board"
                /\ row'.content = mkSnapshot(ret'.board, ret'.board.serial)]_vars

\* a load that rebuilt over stored bundles and saved a snapshot differing
\* from the one it read
C23_Witness ==
    /\ ret.kind = "board"
    /\ load.wrote
    /\ Len(bundles) = 2
    /\ row.content # load.snapshot
    /\ row.content = mkSnapshot(ret.board, ret.board.serial)

\* C24: an enqueue that finds a batch in flight changes queue only: sent
\* keeps its contents and nothing is transmitted; and whenever a non-empty
\* sent changes, the handler that ran is ack or onConnect.
C24_EnqueueLeavesInFlight ==
    [][/\ (op' = "enqueue" /\ state.sent # <<>>) =>
            /\ state'.sent = state.sent
            /\ sends' = <<>>
            /\ dropped' = <<>>
       /\ (state.sent # <<>> /\ state'.sent # state.sent) =>
            op' \in {"ack", "onConnect"}]_vars

\* an enqueue has just queued an event that folds with one in flight and
\* differs from it
C24_Witness ==
    /\ op = "enqueue"
    /\ state.sent # <<>>
    /\ \E i \in DOMAIN state.queue : \E j \in DOMAIN state.sent :
          /\ Foldable(state.queue[i], state.sent[j])
          /\ state.queue[i] # state.sent[j]

\* C25: an ack transmits the queue as it stands, whole and in order, in one
\* batch, and nothing when the queue is empty; the queue never holds two
\* events of the same entity and action class; and an enqueue leaves the new
\* event as the only one of its class, the other entries kept in their order.
C25_AckFlushesFoldedQueue ==
    [][/\ op' = "ack" =>
            IF state.queue = <<>>
            THEN sends' = <<>> /\ state'.sent = <<>>
            ELSE /\ Len(sends') = 1
                 /\ sends'[1].batch = state.queue
                 /\ state'.sent = state.queue
                 /\ state'.queue = <<>>
       /\ \A i, j \in DOMAIN state'.queue :
             i # j => ~Foldable(state'.queue[i], state'.queue[j])
       /\ op' = "enqueue" =>
            \E event \in QEvents :
               LET q == IF sends' = <<>> THEN state'.queue ELSE state'.sent
               IN  /\ \E k \in DOMAIN q :
                         /\ q[k] = event
                         /\ \A j \in DOMAIN q \ {k} : ~Foldable(q[j], event)
                   /\ SelectSeq(q, LAMBDA x : ~Foldable(x, event))
                         = SelectSeq(state.queue, LAMBDA x : ~Foldable(x, event))]_vars

\* an ack has just transmitted two events that were queued while it was
\* awaited
C25_Witness ==
    /\ op = "ack"
    /\ Len(sends) = 1
    /\ Len(sends[1].batch) = 2
    /\ state.sent = sends[1].batch
    /\ state.queue = <<>>

ThrewOps == {"enqueueThrew", "ackThrew", "onConnectThrew"}
UnsentOps == {"enqueueUnsent", "ackUnsent", "onConnectUnsent"}

BootstrapRows(bs) ==
    {i \in DOMAIN bs : \E k \in DOMAIN bs[i].events :
                          bs[i].events[k].action = "item.bootstrap"}

\* C28: the step that creates the board stores the given board as the
\* snapshot at serial 0 with its access policy, and with it one bundle
\* holding the bootstrap entry when the board has content, no bundle when it
\* is empty; createBoard for a board that exists fails and changes no row.
C28_CreateBoard ==
    [][/\ (~row.exists /\ row'.exists) => ret'.kind = "created"
       /\ ret'.kind = "created" =>
            \E board \in {EmptyBoard, SeededBoard} :
               /\ ~row.exists
               /\ row'.exists
               /\ row'.content = [board EXCEPT !.serial = 0]
               /\ row'.policy = board.accessPolicy
               /\ IF board.items = {} /\ board.connections = {}
                  THEN bundles' = <<>>
                  ELSE /\ Len(bundles') = 1
                       /\ bundles'[1].first_serial = 1
                       /\ bundles'[1].last_serial = 1
                       /\ Len(bundles'[1].events) = 1
                       /\ bundles'[1].events[1].action = "item.bootstrap"
       /\ ret'.kind = "exists" =>
            /\ row.exists
            /\ row' = row
            /\ bundles' = bundles
            /\ log' = log]_vars

\* createBoard has just failed for a board created with content, whose
\* snapshot at serial 0 and bootstrap bundle are in place
C28_Witness ==
    /\ ret.kind = "exists"
    /\ row.exists
    /\ row.content = [SeededBoard EXCEPT !.serial = 0]
    /\ Cardinality(BootstrapRows(bundles)) = 1

\* C29: on a load without recovery the serials of the entries applied,
\* board.setAccessPolicy entries among them, are exactly snapshot.serial + 1,
\* ..., returned serial, in this order.
C29_AppliedRunWithPolicyEntries ==
    (ret.kind = "board" /\ ~load.rebuilt) =>
        load.applied1 = [i \in 1..(ret.board.serial - load.snapshot.serial) |->
                            load.snapshot.serial + i]

HighestStored(bs) == IF bs = <<>> THEN 0 ELSE bs[Len(bs)].last_serial

\* C13: an append changes the stored bundles only by adding one bundle whose
\* first serial is the highest stored serial + 1, so that the bundles in
\* last_serial order neither overlap nor leave gaps.
C13_AppendContiguous ==
    [][bundles' # bundles =>
          /\ \E b \in Range(bundles') :
                /\ bundles' = InsertRow(bundles, b)
                /\ b.first_serial = HighestStored(bundles) + 1
          /\ \A i \in 2..Len(bundles') :
                bundles'[i].first_serial = bundles'[i - 1].last_serial + 1]_vars

\* C14: a transaction for one board holds no lock on the row of another
\* board and never waits for a lock held by a transaction for another board.
C14_NoContentionAcrossBoards ==
    \A t \in Txns :
        /\ txn[t].held \subseteq {txn[t].board}
        /\ txn[t].pc = "waiting" =>
              \A u \in Txns \ {t} :
                  txn[t].waitsFor \in txn[u].held => txn[u].board = txn[t].board

(***************************************************************************)
(* Properties of the system event dispatch                                 *)
(***************************************************************************)

\* C12: whatever the interleaving of the dispatches in progress, the serials
\* updateBoards has returned are pairwise different and each is the position
\* of its event in the board's history, the history runs 1, 2, 3, ... without
\* a gap, and every call holds at most the one serial it was given.
C12_SerialsUniqueGapFree ==
    /\ \A i, j \in DOMAIN assigned : i # j => assigned[i].serial # assigned[j].serial
    /\ \A i \in DOMAIN assigned :
          /\ assigned[i].serial = Len(log) - Len(assigned) + i
          /\ log[assigned[i].serial] = assigned[i].event
    /\ \A r \in Requests :
          calls[r].pc \in {"assigned", "done"} =>
              \E i \in DOMAIN assigned :
                  assigned[i] = [serial |-> calls[r].serial, event |-> calls[r].event]

\* both requests began before either was given a serial
C12_Witness ==
    /\ calls["r1"].pc = "assigned"
    /\ calls["r2"].pc = "assigned"
    /\ calls["r1"].seen = calls["r2"].seen
    /\ calls["r1"].serial # calls["r2"].serial
    /\ Len(assigned) = 2

\* C27: every broadcast entry is one updateBoards returned, with its serial;
\* no serial is broadcast twice; the entries returned and not broadcast are
\* those of the calls still between the await and the broadcast; a broadcast
\* is made by a call holding the serial it sends; a call whose updateBoards
\* failed broadcasts nothing; and a call that got its serial broadcasts.
C27_BroadcastOnceAfterSerial ==
    /\ [](/\ \A i \in DOMAIN broadcasts :
                \E j \in DOMAIN assigned : assigned[j] = broadcasts[i]
          /\ \A i, j \in DOMAIN broadcasts :
                i # j => broadcasts[i].serial # broadcasts[j].serial
          /\ Len(assigned) - Len(broadcasts)
                = Cardinality({r \in Requests : calls[r].pc = "assigned"}))
    /\ [][/\ broadcasts' # broadcasts =>
                \E r \in Requests :
                   /\ calls[r].pc = "assigned"
                   /\ calls'[r].pc = "done"
                   /\ calls[r].serial > 0
                   /\ broadcasts' = Append(broadcasts, [serial |-> calls[r].serial,
                                                        event |-> calls[r].event])
          /\ \A r \in Requests :
                /\ (calls'[r].pc = "done" /\ calls[r].pc # "done") =>
                       calls[r].pc = "assigned"
                /\ (calls[r].pc = "failed" /\ calls'[r] # calls[r]) =>
                       calls'[r].pc = "updating"]_vars
    /\ \A r \in Requests : (calls[r].pc = "assigned") ~> (calls[r].pc = "done")

\* one call failed in updateBoards and broadcast nothing, the other was
\* given a serial and broadcast its entry
C27_Witness ==
    /\ calls["r2"].pc = "failed"
    /\ calls["r1"].pc = "done"
    /\ Len(assigned) = 1
    /\ broadcasts = <<[serial |-> calls["r1"].serial, event |-> calls["r1"].event]>>

\* C32: the ok response of an item route whose handler dispatched an event
\* is given only when the event has its serial and was broadcast, and a
\* request whose dispatch failed is not answered ok.
C32_OkAfterBroadcast ==
    [][\A r \in Requests :
          (/\ routes[r].response = "none"
           /\ routes'[r].response = "ok"
           /\ routes[r].dispatched)
             => /\ calls[r].pc = "done"
                /\ calls[r].serial > 0
                /\ \E i \in DOMAIN broadcasts :
                      broadcasts[i] = [serial |-> calls[r].serial,
                                       event |-> calls[r].event]]_vars
    /\ [](\A r \in Requests :
             (routes[r].dispatched /\ calls[r].pc = "failed")
                => routes[r].response # "ok")

BadRequests == {"badRequest: API_TOKEN header is missing", "badRequest: Invalid API_TOKEN"}

\* the step takes a new request in slot r
NewRequest(r) ==
    /\ routes[r].route = "none" \/ routes[r].response # "none"
    /\ routes'[r] # routes[r]

\* C33: on a board with an access policy or an access token, a request whose
\* api_token is missing or is not one of the board's tokens is answered
\* with a bad request, its handler is not run, and the step changes neither
\* the board row, the history, the tokens nor the dispatches; an event is
\* dispatched or the board row written only by a request whose handler ran,
\* and that request carried one of the board's tokens if access was required.
C33_AccessChecked ==
    /\ [][\A r \in Requests :
            /\ (NewRequest(r) /\ row.exists /\ accessRequired
                    /\ routes'[r].token \notin tokens)
                  => /\ routes'[r].response \in BadRequests
                     /\ ~routes'[r].ran
                     /\ UNCHANGED <<row, bundles, log, calls, assigned, broadcasts, tokens>>
            /\ (NewRequest(r) /\ routes'[r].response \in BadRequests)
                  => /\ accessRequired
                     /\ routes'[r].token \notin tokens
            /\ ((calls'[r].pc = "updating" /\ calls[r].pc # "updating")
                    \/ (r = "r1" /\ row.exists /\ row' # row))
                  => /\ NewRequest(r)
                     /\ routes'[r].ran
                     /\ accessRequired => routes'[r].token \in tokens]_vars
    /\ [](\A r \in Requests :
             (routes[r].ran /\ routes[r].required) => routes[r].token \in tokens)

\* the board update was refused for an unknown token while the item post,
\* carrying one of the board's tokens, dispatched its event
C33_Witness ==
    /\ tokens # {}
    /\ routes["r1"].response = "badRequest: Invalid API_TOKEN"
    /\ routes["r1"].token \notin tokens \cup {NoToken}
    /\ routes["r2"].ran
    /\ routes["r2"].required
    /\ routes["r2"].token \in tokens
    /\ calls["r2"].pc = "updating"

\* C34: a client is held from connect until the promise of f has settled:
\* while f's promise is pending its client is not idle in the pool and no
\* other call holds it, and every call that is over has released its
\* client once.
C34_ReleasedAfterSettled ==
    /\ \A k \in Callers :
          pool.callers[k].pc \in {"connected", "pending"} =>
              /\ pool.callers[k].client \notin pool.idle
              /\ \A j \in Callers \ {k} :
                    pool.callers[j].pc \in {"connected", "pending"} =>
                        pool.callers[j].client # pool.callers[k].client
    /\ \A k \in Callers :
          /\ pool.callers[k].pc = "settled" => pool.callers[k].releases = 1
          /\ pool.callers[k].pc = "connected" => pool.callers[k].releases = 0

\* a history is gap-free inside when each entry follows the one before
GapFreeInside(history) ==
    \A i \in 1..(Len(history) - 1) : history[i + 1].serial = history[i].serial + 1

\* C31: for bundles that are non-empty and gap-free inside, verifyContinuity
\* on the bundles, verifyContinuityFromMetas on their metas and
\* verifyEventArrayContinuity on their concatenation return the same value,
\* and when it is false all three report the same pair of serials; for
\* [1..5], [8..10] from 0 the value is false and the pair is (5, 8).
C31_BundleAndEventContinuityAgree ==
    (/\ verified.fn = "verifyContinuity"
     /\ \A i \in DOMAIN verified.events :
           Len(verified.events[i]) > 0 /\ GapFreeInside(verified.events[i]))
        => /\ verified.result = verified.fromEvents
           /\ verified.fromMetas = verified.fromEvents
           /\ verified.log = verified.logFromEvents
           /\ verified.logFromMetas = verified.logFromEvents
           /\ verified.result <=> verified.log = <<>>
           /\ (verified.init = 0 /\ Serials(Concat(verified.events)) = <<1, 2, 3, 4, 5, 8, 9, 10>>)
                 => (~verified.result /\ verified.log = <<<<5, 8>>>>)

\* the bundles [1..5], [8..10] verified from 0
C31_Witness ==
    /\ verified.fn = "verifyContinuity"
    /\ verified.init = 0
    /\ Len(verified.events) = 2
    /\ Serials(verified.events[1]) = <<1, 2, 3, 4, 5>>
    /\ Serials(verified.events[2]) = <<8, 9, 10>>
    /\ ~verified.result
    /\ ~verified.fromMetas
    /\ ~verified.fromEvents
    /\ verified.logFromMetas = <<<<5, 8>>>>

(***************************************************************************)
(* Properties of the continuity verifiers                                  *)
(***************************************************************************)

\* C15: verifyEventArrayContinuity(init, events) is false exactly when the
\* first serial is not init + 1 or some entry is not its predecessor + 1; it
\* is true for the empty sequence.
C15_EventArrayContinuity ==
    verified.fn = "verifyEventArrayContinuity" =>
        LET e == verified.events
        IN  (verified.result = FALSE) <=>
                /\ Len(e) > 0
                /\ \/ e[1].serial # verified.init + 1
                   \/ \E i \in 1..(Len(e) - 1) : e[i + 1].serial - e[i].serial # 1

C15_Witness ==
    /\ verified.fn = "verifyEventArrayContinuity"
    /\ verified.init = 1
    /\ Serials(verified.events) = <<2, 3, 2>>
    /\ verified.result = FALSE

\* C21: with the stream and the callback succeeding, getBoardHistory fails
\* exactly when (a) an entry above afterSerial was streamed and the first such
\* entry is not afterSerial + 1, or (b) none was streamed, afterSerial is not 0
\* and the last streamed chunk does not end at afterSerial.
C21_HistoryStartCheck ==
    verified.fn = "getBoardHistory" =>
        LET after == verified.init
            streamed == SelectSeq(verified.events, LAMBDA b : b.last_serial >= after)
            valid == SelectSeq(Flatten([i \in 1..Len(streamed) |-> streamed[i].events]),
                               LAMBDA e : e.serial > after)
        IN  (verified.result = FALSE) <=>
                \/ valid # <<>> /\ valid[1].serial # after + 1
                \/ /\ valid = <<>>
                   /\ after # 0
                   /\ \/ streamed = <<>>
                      \/ streamed[Len(streamed)].last_serial # after

\* the stored history ends below afterSerial: the caller is ahead of the store
C21_Witness ==
    /\ verified.fn = "getBoardHistory"
    /\ verified.init = 2
    /\ Len(verified.events) = 1
    /\ verified.events[1].last_serial = 1
    /\ verified.result = FALSE

====
